---- MODULE Spec2Model ----
(***************************************************************************)
(* Model of the request-scoped rate-limit resolution plugin               *)
(* (backend/src/server/plugins/inject-rate-limits.ts).                    *)
(*                                                                         *)
(* The onRequest hook reads the instance-wide rate limiter configuration,  *)
(* and either attaches that very object to the request (public requests,   *)
(* self-hosted custom limits) or attaches a new object merged, field by    *)
(* field, from the organization's plan and the instance configuration.     *)
(* The hook suspends once, on license.getPlan; everything before and       *)
(* everything after that await runs as one uninterrupted step.             *)
(*                                                                         *)
(* Objects are modelled by reference: `heap` holds the instance            *)
(* configuration objects ever installed, `registryRef` is the module-level *)
(* variable pointing at the current one, and a request's rateLimits is     *)
(* null, a reference into the heap, or an object literal of its own.       *)
(***************************************************************************)
EXTENDS Integers, Sequences, FiniteSets, TLC

\* ---------------------------------------------------------------- bounds
NumReqs == 2
MaxSyncs == 1

\* ------------------------------------------------------------ data model
Reqs == 1 .. NumReqs
Orgs == {"orgA", "orgB"}

\* Field values are integers; a null field and a missing field are encoded
\* by two integers no threshold takes.
NULL == -1
UNDEFINED == -2
NoAuth == "noAuth"

Categories ==
  {"readLimit", "publicEndpointLimit", "writeLimit", "secretsLimit",
   "authRateLimit", "inviteUserRateLimit", "mfaRateLimit", "creationLimit"}

CatIndex ==
  [c \in Categories |->
     CASE c = "readLimit" -> 1
       [] c = "publicEndpointLimit" -> 2
       [] c = "writeLimit" -> 3
       [] c = "secretsLimit" -> 4
       [] c = "authRateLimit" -> 5
       [] c = "inviteUserRateLimit" -> 6
       [] c = "mfaRateLimit" -> 7
       [] c = "creationLimit" -> 8]

\* Instance defaults installed at construction (read 300, write 60, ...).
DefaultConfig ==
  [c \in Categories |->
     CASE c = "readLimit" -> 300
       [] c = "publicEndpointLimit" -> 30
       [] c = "writeLimit" -> 60
       [] c = "secretsLimit" -> 40
       [] c = "authRateLimit" -> 80
       [] c = "inviteUserRateLimit" -> 10
       [] c = "mfaRateLimit" -> 20
       [] c = "creationLimit" -> 50]

\* Configurations an administrator may sync into the registry.
AdminConfigs ==
  { [c \in Categories |-> DefaultConfig[c] + k] : k \in {1, 2} }

\* Values carried by an organization's plan; distinct per organization and
\* per category, and distinct from every instance value.
PlanValue(o, c) ==
  (IF o = "orgA" THEN 9000 ELSE 7000) + CatIndex[c]

\* Shapes of plan.rateLimits: the fields an (outdated) license carries, and
\* the field, if any, whose value is 0.  orgA ranges over every shape; orgB
\* is the second tenant, whose plan only has to be told apart from orgA's.
PlanShapes(o) ==
  IF o = "orgA"
  THEN { [present |-> {}, zero |-> "none"],
         [present |-> Categories, zero |-> "none"],
         [present |-> {"readLimit"}, zero |-> "none"],
         [present |-> Categories \ {"mfaRateLimit", "creationLimit"}, zero |-> "readLimit"] }
  ELSE { [present |-> Categories \ {"readLimit", "creationLimit"}, zero |-> "none"] }

\* plan.rateLimits absent as a whole.
PlanObjects(o) ==
  IF o = "orgA" THEN {[kind |-> "null"], [kind |-> "undefined"]} ELSE {}

\* plan.customRateLimits
CustomFlags(o) == IF o = "orgA" THEN BOOLEAN ELSE {FALSE}

\* A field an outdated license lacks is either missing or an explicit null.
AbsentAs(c) == IF CatIndex[c] % 2 = 0 THEN NULL ELSE UNDEFINED

\* Object values: null, undefined, a reference to an instance configuration
\* object, or an object of one's own.
NullObj == [kind |-> "null"]
UndefinedObj == [kind |-> "undefined"]
Ref(i) == [kind |-> "ref", id |-> i]
Obj(v) == [kind |-> "obj", val |-> v]

PlanRateLimits(o) ==
  PlanObjects(o) \cup
  { Obj([c \in Categories |->
       IF c \in sh.present
       THEN (IF c = sh.zero THEN 0 ELSE PlanValue(o, c))
       ELSE AbsentAs(c)]) :
    sh \in PlanShapes(o) }

Plans(o) ==
  [customRateLimits : CustomFlags(o), rateLimits : PlanRateLimits(o)]

\* ----------------------------------------------------------------- state
VARIABLES
  heap,          \* instance configuration objects, in order of creation
  registryRef,   \* the current instance configuration object
  isCloud,       \* appCfg.isCloud
  orgPlan,       \* what license.getPlan(orgId) resolves to
  pc,            \* position of each request in the hook
  auth,          \* req.auth: NoAuth or the organization id
  cfg,           \* the hook's local instanceRateLimiterConfig (a reference)
  rateLimits,    \* req.rateLimits
  getPlanCalls   \* number of getPlan calls made for the request

vars == <<heap, registryRef, isCloud, orgPlan, pc, auth, cfg, rateLimits,
          getPlanCalls>>

Terminal == {"publicDefault", "selfHostedDefault", "planMerged", "fault"}
Resolved == {"publicDefault", "selfHostedDefault", "planMerged"}

\* -------------------------------------------------------------- helpers
\* The thresholds a request sees through req.rateLimits (every field null
\* while req.rateLimits is still the decorated null).
Limits(r) ==
  IF rateLimits[r].kind = "ref" THEN heap[rateLimits[r].id]
  ELSE IF rateLimits[r].kind = "obj" THEN rateLimits[r].val
  ELSE [c \in Categories |-> NULL]

\* getRateLimiterConfig(): the current object, by reference.
getRateLimiterConfig == registryRef

\* rateLimits?.field
OptionalField(rl, c) ==
  IF rl.kind \in {"null", "undefined"} THEN UNDEFINED ELSE rl.val[c]

\* a || b, which also discards 0.
CoalesceOr(a, b) == IF a \in {NULL, UNDEFINED, 0} THEN b ELSE a

\* a ?? b
Coalesce(a, b) == IF a \in {NULL, UNDEFINED} THEN b ELSE a

\* A fallback that asks the registry again after the await, for one field.
FallbackConfigReread(r, c) ==
  IF c = "readLimit" THEN heap[registryRef][c] ELSE heap[cfg[r]][c]

\* A fallback that asks the registry again after the await, for every field.
FallbackConfigLive(r, c) == heap[registryRef][c]

\* The instance object the merge falls back to for a category.
FallbackConfig(r, c) == heap[cfg[r]][c]

\* An object literal without the fallbacks.
MergedNoFallback(r, rl) ==
  [c \in Categories |-> OptionalField(rl, c)]

\* The object literal of lines 29-38.
MergedRateLimits(r, rl) ==
  [c \in Categories |-> Coalesce(OptionalField(rl, c), FallbackConfig(r, c))]

\* The organization of whichever request authenticated first.
GetPlanArgFirst(r) ==
  auth[CHOOSE q \in Reqs : auth[q] \in Orgs /\ \A p \in Reqs : auth[p] \in Orgs => q <= p]

\* req.auth.orgId handed to getPlan.
GetPlanArg(r) == auth[r]

\* plan.customRateLimits && appCfg.isCloud
UseInstanceConfigCloud(plan) == plan.customRateLimits /\ isCloud

\* plan.customRateLimits && !appCfg.isCloud
UseInstanceConfig(plan) == plan.customRateLimits /\ ~isCloud

\* A public request merged with some organization's plan.
PublicRateLimitsMerged(i) ==
  Obj([c \in Categories |->
         Coalesce(OptionalField(orgPlan["orgA"].rateLimits, c), heap[i][c])])

\* req.rateLimits = instanceRateLimiterConfig (public endpoints)
PublicRateLimits(i) == Ref(i)

\* req.rateLimits = instanceRateLimiterConfig (self-hosted custom limits)
SelfHostedRateLimits(r) == Ref(cfg[r])

\* A rejection caught and replaced by the instance defaults.
FaultRateLimitsDefault(r) == Ref(cfg[r])

\* req.rateLimits after getPlan rejected: the hook never assigns it.
FaultRateLimits(r) == rateLimits[r]

\* A rejection that runs the hook again.
AfterRejectRetry == "start"

\* Where a request is once getPlan rejected: the rejection leaves the hook.
AfterReject == "fault"

\* ------------------------------------------------------------------ Init
Init ==
  /\ heap = <<DefaultConfig>>
  /\ registryRef = 1
  /\ isCloud \in BOOLEAN
  /\ \E pa \in Plans("orgA"), pb \in Plans("orgB") :
       orgPlan = [o \in Orgs |-> IF o = "orgA" THEN pa ELSE pb]
  /\ pc = [r \in Reqs |-> "start"]
  /\ auth = [r \in Reqs |-> NoAuth]
  /\ cfg = [r \in Reqs |-> 0]
  /\ rateLimits = [r \in Reqs |-> NullObj]
  /\ getPlanCalls = [r \in Reqs |-> 0]

\* --------------------------------------------------------------- actions
\* Administrative sync.  The registry service is outside this plugin; the
\* update is modelled by the mechanism the design names as its example, a
\* new object swapped in for the current one in a single step.  What the
\* plugin needs of it is only that a read never sees a half-written
\* configuration.  Whether an object already handed out is later rewritten,
\* or whether getRateLimiterConfig hands out a copy, is the registry's own
\* business and is not determined here: nothing below is stated about the
\* fate, after resolution, of a configuration object shared with a request.
SyncRateLimitConfiguration(new) ==
  /\ Len(heap) <= MaxSyncs
  /\ heap' = Append(heap, new)
  /\ registryRef' = Len(heap) + 1
  /\ UNCHANGED <<isCloud, orgPlan, pc, auth, cfg, rateLimits, getPlanCalls>>

\* Lines 9-16: a request without auth context.
OnRequestPublic(r) ==
  /\ pc[r] = "start"
  /\ auth' = [auth EXCEPT ![r] = NoAuth]
  /\ cfg' = [cfg EXCEPT ![r] = getRateLimiterConfig]
  /\ rateLimits' = [rateLimits EXCEPT ![r] = PublicRateLimits(getRateLimiterConfig)]
  /\ pc' = [pc EXCEPT ![r] = "publicDefault"]
  /\ UNCHANGED <<heap, registryRef, isCloud, orgPlan, getPlanCalls>>

\* Lines 9-18: an authenticated request reads the registry, calls getPlan
\* and suspends.
OnRequestAwaitPlan(r, o) ==
  /\ pc[r] = "start"
  /\ auth' = [auth EXCEPT ![r] = o]
  /\ cfg' = [cfg EXCEPT ![r] = getRateLimiterConfig]
  /\ getPlanCalls' = [getPlanCalls EXCEPT ![r] = @ + 1]
  /\ pc' = [pc EXCEPT ![r] = "awaitPlan"]
  /\ UNCHANGED <<heap, registryRef, isCloud, orgPlan, rateLimits>>

\* Line 18: getPlan rejects; the rejection propagates out of the hook.
GetPlanRejected(r) ==
  /\ pc[r] = "awaitPlan"
  /\ rateLimits' = [rateLimits EXCEPT ![r] = FaultRateLimits(r)]
  /\ pc' = [pc EXCEPT ![r] = AfterReject]
  /\ UNCHANGED <<heap, registryRef, isCloud, orgPlan, auth, cfg, getPlanCalls>>

\* Lines 18-26: getPlan resolves, custom limits on a self-hosted instance.
SelfHostedDefault(r) ==
  /\ pc[r] = "awaitPlan"
  /\ UseInstanceConfig(orgPlan[GetPlanArg(r)])
  /\ rateLimits' = [rateLimits EXCEPT ![r] = SelfHostedRateLimits(r)]
  /\ pc' = [pc EXCEPT ![r] = "selfHostedDefault"]
  /\ UNCHANGED <<heap, registryRef, isCloud, orgPlan, auth, cfg, getPlanCalls>>

\* Lines 18-38: getPlan resolves, per-category merge.
PlanMerged(r) ==
  /\ pc[r] = "awaitPlan"
  /\ ~UseInstanceConfig(orgPlan[GetPlanArg(r)])
  /\ rateLimits' = [rateLimits EXCEPT ![r] =
                      Obj(MergedRateLimits(r, orgPlan[GetPlanArg(r)].rateLimits))]
  /\ pc' = [pc EXCEPT ![r] = "planMerged"]
  /\ UNCHANGED <<heap, registryRef, isCloud, orgPlan, auth, cfg, getPlanCalls>>

Next ==
  \/ \E new \in AdminConfigs : SyncRateLimitConfiguration(new)
  \/ \E r \in Reqs : OnRequestPublic(r)
  \/ \E r \in Reqs, o \in Orgs : OnRequestAwaitPlan(r, o)
  \/ \E r \in Reqs : GetPlanRejected(r)
  \/ \E r \in Reqs : SelfHostedDefault(r)
  \/ \E r \in Reqs : PlanMerged(r)

Spec == Init /\ [][Next]_vars

\* ================================================================ claims
Nullish(v) == v \in {NULL, UNDEFINED}

\* The plan of the organization a request is authenticated for.
PlanOf(r) == orgPlan[auth[r]]

\* The plan's own value for a category (UNDEFINED when rateLimits is absent
\* as a whole).
PlanField(r, c) ==
  IF PlanOf(r).rateLimits.kind = "obj" THEN PlanOf(r).rateLimits.val[c] ELSE UNDEFINED

\* C1: a request without auth context is resolved, in the step that
\* evaluates it, to exactly the instance configuration the registry holds at
\* that moment, in every category, whatever the plans and isCloud are.
C1_PublicUsesRegistry ==
  [][\A r \in Reqs :
       (pc[r] = "start" /\ pc'[r] \in Terminal /\ auth'[r] = NoAuth)
         => /\ pc'[r] = "publicDefault"
            /\ \A c \in Categories : Limits(r)'[c] = heap[registryRef][c]]_vars

C1_Witness ==
  \E r \in Reqs :
    /\ pc[r] = "publicDefault"
    /\ Len(heap) >= 2 /\ cfg[r] = 2
    /\ Limits(r) = heap[2]
    /\ ~isCloud
    /\ orgPlan["orgA"].customRateLimits
    /\ orgPlan["orgA"].rateLimits.kind = "obj"
    /\ \A c \in Categories : ~Nullish(orgPlan["orgA"].rateLimits.val[c])

\* C2: an authenticated request whose plan has customRateLimits while the
\* instance is not cloud is resolved to the instance configuration it read,
\* in every category; no value of the plan appears.
C2_SelfHostedUsesRegistry ==
  \A r \in Reqs :
    (pc[r] \in Resolved /\ auth[r] \in Orgs
       /\ PlanOf(r).customRateLimits /\ ~isCloud)
      => \A c \in Categories :
           /\ Limits(r)[c] = heap[cfg[r]][c]
           /\ Limits(r)[c] # PlanField(r, c)

C2_Witness ==
  \E r \in Reqs :
    /\ pc[r] = "selfHostedDefault"
    /\ ~isCloud /\ PlanOf(r).customRateLimits
    /\ \A c \in Categories : ~Nullish(PlanField(r, c))
    /\ Limits(r) = heap[cfg[r]]

\* C3: an authenticated request with customRateLimits false or isCloud true
\* gets, category by category, the plan's value when it is present and not
\* null (0 included) and the instance value otherwise.
C3_PerCategoryMerge ==
  \A r \in Reqs :
    (pc[r] \in Resolved /\ auth[r] \in Orgs
       /\ (~PlanOf(r).customRateLimits \/ isCloud))
      => \A c \in Categories :
           Limits(r)[c] =
             IF Nullish(PlanField(r, c)) THEN heap[cfg[r]][c] ELSE PlanField(r, c)

C3_Witness ==
  \E r \in Reqs :
    /\ pc[r] = "planMerged"
    /\ isCloud /\ PlanOf(r).customRateLimits
    /\ PlanField(r, "readLimit") = 0
    /\ Limits(r)["readLimit"] = 0
    /\ PlanField(r, "creationLimit") = NULL
    /\ PlanField(r, "mfaRateLimit") = UNDEFINED
    /\ Limits(r)["creationLimit"] = heap[cfg[r]]["creationLimit"]
    /\ Limits(r)["writeLimit"] = PlanField(r, "writeLimit")
    /\ cfg[r] # registryRef

\* C4: when getPlan rejects, the request ends in the fault position with
\* req.rateLimits still the decorated null, and stays there.
C4_FaultLeavesUnresolved ==
  [][\A r \in Reqs :
       /\ GetPlanRejected(r) => (pc'[r] = "fault" /\ rateLimits'[r] = NullObj)
       /\ pc[r] = "fault" => (pc'[r] = "fault" /\ rateLimits'[r] = NullObj)]_vars

C4_Witness ==
  \E r \in Reqs :
    /\ pc[r] = "fault" /\ auth[r] \in Orgs /\ rateLimits[r] = NullObj
    /\ Len(heap) >= 2
    /\ \E q \in Reqs : pc[q] \in Resolved

\* C5: every resolved request has a threshold (a natural number, neither
\* null nor missing) in each of the eight categories.
C5_Complete ==
  \A r \in Reqs :
    pc[r] \in Resolved =>
      \A c \in Categories : Limits(r)[c] \in Nat /\ ~Nullish(Limits(r)[c])

C5_Witness ==
  \E r \in Reqs :
    /\ pc[r] = "planMerged"
    /\ PlanOf(r).rateLimits.kind = "obj"
    /\ \E c \in Categories : Nullish(PlanField(r, c))
    /\ \E c \in Categories : ~Nullish(PlanField(r, c))
    /\ \E q \in Reqs : pc[q] = "planMerged" /\ PlanOf(q).rateLimits.kind = "null"

\* A category of a resolved request whose value comes from the registry.
RegistryDerived(r, c) ==
  \/ pc[r] \in {"publicDefault", "selfHostedDefault"}
  \/ pc[r] = "planMerged" /\ Nullish(PlanField(r, c))

\* C6: the registry-derived values of one resolved request all come from
\* one instance configuration, the one the request read, even when syncs
\* replaced the configuration while the request waited for getPlan.
C6_OneSnapshot ==
  \A r \in Reqs :
    pc[r] \in Resolved =>
      \E i \in 1 .. Len(heap) :
        \A c \in Categories : RegistryDerived(r, c) => Limits(r)[c] = heap[i][c]

C6_Witness ==
  \E r \in Reqs :
    /\ pc[r] = "planMerged"
    /\ cfg[r] # registryRef
    /\ heap[cfg[r]] # heap[registryRef]
    /\ RegistryDerived(r, "readLimit") /\ RegistryDerived(r, "writeLimit")

\* C8: two resolved requests with the same auth context (hence the same
\* plan and isCloud) that read equal instance configurations have equal
\* limits in every category.
C8_Deterministic ==
  \A r1 \in Reqs, r2 \in Reqs :
    (pc[r1] \in Resolved /\ pc[r2] \in Resolved
       /\ auth[r1] = auth[r2] /\ heap[cfg[r1]] = heap[cfg[r2]])
      => \A c \in Categories : Limits(r1)[c] = Limits(r2)[c]

C8_Witness ==
  \E r1 \in Reqs, r2 \in Reqs :
    /\ r1 # r2
    /\ pc[r1] = "planMerged" /\ pc[r2] = "planMerged"
    /\ auth[r1] = auth[r2]
    /\ cfg[r1] = cfg[r2] /\ cfg[r1] # registryRef
    /\ \E c \in Categories : Nullish(PlanField(r1, c))
    /\ Limits(r1) = Limits(r2)

\* Order of the positions of the hook.
Rank(p) == IF p = "start" THEN 0 ELSE IF p = "awaitPlan" THEN 1 ELSE 2

\* C9: a resolution calls getPlan at most once and never for a request
\* without auth context, only moves forward, stays in the one terminal
\* outcome it reached, and an authenticated request's limits are assigned
\* only once its single getPlan call has returned.
C9_AtMostOneGetPlan ==
  [][\A r \in Reqs :
       /\ getPlanCalls'[r] <= 1
       /\ auth'[r] = NoAuth => getPlanCalls'[r] = 0
       /\ Rank(pc'[r]) >= Rank(pc[r])
       /\ pc[r] \in Terminal => pc'[r] = pc[r]
       /\ pc'[r] \in {"selfHostedDefault", "planMerged", "fault"}
            => (pc[r] \in {"awaitPlan", pc'[r]} /\ getPlanCalls'[r] = 1)
       /\ (auth'[r] \in Orgs /\ rateLimits'[r] # NullObj)
            => (getPlanCalls'[r] = 1
                /\ pc'[r] \in {"selfHostedDefault", "planMerged"})]_vars

C9_Witness ==
  /\ \E r \in Reqs : pc[r] = "publicDefault" /\ getPlanCalls[r] = 0
  /\ \E r \in Reqs : pc[r] = "fault" /\ getPlanCalls[r] = 1

\* Values a request may legitimately carry in a category: an instance value
\* or the value of its own organization's plan.
OwnValues(r, c) ==
  { heap[i][c] : i \in 1 .. Len(heap) } \cup
  (IF auth[r] \in Orgs THEN {PlanField(r, c)} ELSE {})

\* C10: every value in a resolved request's limits is an instance value or
\* a value of its own organization's plan, never another organization's,
\* and a step of one request leaves every other request's limits unchanged.
C10_Isolation ==
  [][\A r \in Reqs :
       /\ pc'[r] \in Resolved
            => \A c \in Categories : Limits(r)'[c] \in OwnValues(r, c)'
       /\ \A q \in Reqs :
            (q # r /\ pc'[q] # pc[q])
              => (rateLimits'[r] = rateLimits[r] /\ Limits(r)' = Limits(r))]_vars

C10_Witness ==
  \E r \in Reqs, q \in Reqs :
    /\ pc[r] = "planMerged" /\ pc[q] = "planMerged"
    /\ auth[r] = "orgA" /\ auth[q] = "orgB"
    /\ Limits(r)["writeLimit"] = PlanValue("orgA", "writeLimit")
    /\ Limits(q)["writeLimit"] = PlanValue("orgB", "writeLimit")

====
